---- MODULE Spec2Model ----
(***************************************************************************)
(* Model of the conversion scripts under tools/:                           *)
(*   tools/convert_weights.py                    (.npz -> safetensors)     *)
(*   tools/coreml_converter/convert_moonshine.py (Moonshine -> CoreML)     *)
(*   tools/coreml_converter/convert_t5.py        (T5 -> CoreML)            *)
(*   tools/coreml_converter/convert_silero_vad.py (Silero VAD -> CoreML)   *)
(*                                                                         *)
(* One behaviour is one run of one script.  Each function the script's     *)
(* main calls is one action; a library call inside it may raise, which is  *)
(* the nondeterministic number of steps of the function that complete.     *)
(***************************************************************************)
EXTENDS Integers, Sequences, FiniteSets, TLC

\* ---------------------------------------------------------------- bounds
MaxArgs == 3
MaxKeys == 2
MaxVal == 2
MaxChunk == 1
MaxState == 1

\* ------------------------------------------------------ program constants
SAMPLE_RATE == 16000
MIN_AUDIO_SECONDS == 1
MAX_AUDIO_SECONDS == 30
DEFAULT_AUDIO_SECONDS == 5
MIN_AUDIO_SAMPLES == MIN_AUDIO_SECONDS * SAMPLE_RATE
MAX_AUDIO_SAMPLES == MAX_AUDIO_SECONDS * SAMPLE_RATE
DEFAULT_AUDIO_SAMPLES == DEFAULT_AUDIO_SECONDS * SAMPLE_RATE
MAX_OUTPUT_TOKENS == 448
STATIC_AUDIO_SAMPLES == 16000 * 10
STATIC_SEQ_LEN == 128

MIN_INPUT_LENGTH == 1
MAX_INPUT_LENGTH == 512
DEFAULT_INPUT_LENGTH == 64
MIN_OUTPUT_LENGTH == 1
MAX_OUTPUT_LENGTH == 512

\* ------------------------------------------------------------ input sets
Scripts == {"convert_weights", "convert_moonshine", "convert_t5", "convert_silero_vad"}
Paths == {"p1", "p2"}
Keys == 1..MaxKeys
Vals == 1..MaxVal

VARIABLES
    script,         \* which script this run executes
    argv,           \* sys.argv of convert_weights: argv[1] is the script name
    flags,          \* parsed argparse flags (store_true options)
    exists,         \* paths that exist on disk (convert_weights)
    data_files,     \* data.files of the archive at input_path
    data_entries,   \* data[k] for every k of data.files
    pc,             \* position of the run in its main
    status,         \* process exit status, meaningful when pc = "exit"
    log,            \* completed steps, in order: [step, pkg, attempt]
    failed,         \* steps that raised
    saved,          \* packages whose save completed
    declared,       \* input shapes handed to ct.convert, per package
    converted,      \* [pkg, precision] of every completed ct.convert
    validated,      \* packages handed to validate_models
    calls,          \* number of calls, per function of interest
    convert_args,   \* arguments of every call of convert_weights.convert
    save_file_args, \* arguments of every call of save_file
    written,        \* paths created or modified by save_file
    forward_call    \* the call of SileroVADWrapper.forward made by the trace

vars == <<script, argv, flags, exists, data_files, data_entries, pc, status,
          log, failed, saved, declared, converted, validated, calls,
          convert_args, save_file_args, written, forward_call>>

\* ------------------------------------------------------------- helpers
Range(s) == {s[i] : i \in 1..Len(s)}

SeqsUpTo(S, n) == UNION {[1..m -> S] : m \in 0..n}

Injective(s) == \A i, j \in 1..Len(s) : s[i] = s[j] => i = j

NoFlags == [skip_validation |-> FALSE, no_quantize |-> FALSE,
            combined_only |-> FALSE, split_only |-> FALSE,
            energy_only |-> FALSE]

Funcs == {"convert", "np_load", "save_file", "validate_models",
          "download_silero_vad", "convert_to_coreml",
          "create_energy_vad_coreml"}

Called(f) == [calls EXCEPT ![f] = @ + 1]

\* events of one package build: the first n of steps complete
Events(steps, pkg, attempt, n) ==
    [i \in 1..n |-> [step |-> steps[i], pkg |-> pkg, attempt |-> attempt]]

\* an uncaught exception ends the interpreter with status 1;
\* sys.exit(1) does the same
Exit(code) == pc' = "exit" /\ status' = code

\* ---------------------------------------------------------------- Init
Init ==
    /\ script \in Scripts
    /\ pc = "main"
    /\ status = 0
    /\ log = <<>>
    /\ failed = {}
    /\ saved = {}
    /\ declared = {}
    /\ converted = {}
    /\ validated = {}
    /\ calls = [f \in Funcs |-> 0]
    /\ convert_args = <<>>
    /\ save_file_args = <<>>
    /\ written = {}
    /\ forward_call = [called |-> FALSE]
    /\ IF script = "convert_weights"
       THEN /\ \E a \in SeqsUpTo(Paths, MaxArgs) : argv = <<"convert_weights.py">> \o a
            /\ exists \in SUBSET Paths
            /\ data_files \in {s \in SeqsUpTo(Keys, MaxKeys) : Injective(s)}
            /\ data_entries \in [Range(data_files) -> Vals]
            /\ flags = NoFlags
       ELSE /\ argv = <<>>
            /\ exists = {}
            /\ data_files = <<>>
            /\ data_entries = <<>>
            /\ flags \in
                 CASE script = "convert_moonshine" ->
                        {f \in [DOMAIN NoFlags -> BOOLEAN] : ~f.energy_only}
                   [] script = "convert_t5" ->
                        {f \in [DOMAIN NoFlags -> BOOLEAN] :
                            ~f.energy_only /\ ~f.no_quantize}
                   [] OTHER ->
                        {f \in [DOMAIN NoFlags -> BOOLEAN] :
                            /\ ~f.skip_validation /\ ~f.no_quantize
                            /\ ~f.combined_only /\ ~f.split_only}

\* ====================================================== convert_weights
\* os.path.exists(input_path)
path_exists_dropped(p, fs) == TRUE
path_exists(p, fs) == p \in fs

\* the positional arguments handed to convert: sys.argv[1], sys.argv[2]
convert_call_args_swapped(av) == <<av[3], av[2]>>
convert_call_args(av) == <<av[2], av[3]>>

\* {k: data[k] for k in data.files}: one assignment per name, in file order
RECURSIVE dict_comprehension(_, _)
dict_comprehension(files, entries) ==
    IF files = <<>> THEN <<>>
    ELSE LET d == dict_comprehension(SubSeq(files, 1, Len(files) - 1), entries)
             k == files[Len(files)]
         IN [x \in (DOMAIN d) \cup {k} |-> IF x = k THEN entries[k] ELSE d[x]]

tensors_of_short(files, entries) ==
    dict_comprehension(SubSeq(files, 1, Len(files) - 1), entries)
tensors_of(files, entries) == dict_comprehension(files, entries)

\* np.load, the comprehension and save_file, in the order of the try block
weights_steps == <<"load", "convert", "save">>

\* if __name__ == "__main__":
weights_main ==
    /\ script = "convert_weights" /\ pc = "main"
    /\ IF Len(argv) < 3
       THEN /\ failed' = failed \cup {"usage"}
            /\ Exit(1)
       ELSE /\ pc' = "convert"
            /\ UNCHANGED <<failed, status>>
    /\ UNCHANGED <<forward_call, script, argv, flags, exists, data_files, data_entries, log,
                   saved, declared, converted, validated, calls, convert_args,
                   save_file_args, written>>

\* convert(sys.argv[1], sys.argv[2])
convert ==
    /\ script = "convert_weights" /\ pc = "convert"
    /\ LET input_path == convert_call_args(argv)[1]
           output_path == convert_call_args(argv)[2]
           tensors == tensors_of(data_files, data_entries)
       IN
       /\ convert_args' = Append(convert_args, <<input_path, output_path>>)
       /\ IF ~path_exists(input_path, exists)
          THEN /\ failed' = failed \cup {"input_not_found"}
               /\ calls' = Called("convert")
               /\ Exit(1)
               /\ UNCHANGED <<log, saved, save_file_args, written, exists>>
          ELSE \E n \in 0..3 :
               /\ log' = log \o Events(weights_steps, "safetensors", 1, n)
               /\ calls' = [calls EXCEPT !["convert"] = @ + 1,
                                         !["np_load"] = @ + 1,
                                         !["save_file"] = @ + (IF n >= 2 THEN 1 ELSE 0)]
               /\ save_file_args' = IF n >= 2
                                    THEN Append(save_file_args, <<tensors, output_path>>)
                                    ELSE save_file_args
               /\ IF n = 3
                  THEN /\ saved' = saved \cup {"safetensors"}
                       /\ written' = written \cup {output_path}
                       /\ exists' = exists \cup {output_path}
                       /\ UNCHANGED failed
                       /\ Exit(0)
                  ELSE /\ failed' = failed \cup {weights_steps[n + 1]}
                       /\ UNCHANGED <<saved, written, exists>>
                       /\ Exit(1)
    /\ UNCHANGED <<forward_call, script, argv, flags, data_files, data_entries, declared,
                   converted, validated>>

\* ================================================ shapes and precisions
\* ct.RangeDim(lower_bound, upper_bound, default)
RangeDim(pkg, name, lower_bound, upper_bound, default) ==
    [pkg |-> pkg, name |-> name, dynamic |-> TRUE,
     lower |-> lower_bound, upper |-> upper_bound, default |-> default]

\* a fixed dimension in ct.Shape: exactly one length is accepted
StaticDim(pkg, name, size) ==
    [pkg |-> pkg, name |-> name, dynamic |-> FALSE,
     lower |-> size, upper |-> size, default |-> size]

\* a declared input accepts a length inside its bounds
Accepts(d, n) == d.lower <= n /\ n <= d.upper

\* min_enc_seq, max_enc_seq, default_enc_seq
min_enc_seq == IF 1 > MIN_AUDIO_SAMPLES \div 192 THEN 1 ELSE MIN_AUDIO_SAMPLES \div 192
max_enc_seq == MAX_AUDIO_SAMPLES \div 192 + 1
default_enc_seq == DEFAULT_AUDIO_SAMPLES \div 192

\* inputs= of ct.convert in convert_moonshine.convert_encoder_to_coreml
moonshine_encoder_inputs_default_cap ==
    {RangeDim("MoonshineEncoder", "input_values",
              MIN_AUDIO_SAMPLES, DEFAULT_AUDIO_SAMPLES, DEFAULT_AUDIO_SAMPLES)}
moonshine_encoder_inputs ==
    {RangeDim("MoonshineEncoder", "input_values",
              MIN_AUDIO_SAMPLES, MAX_AUDIO_SAMPLES, DEFAULT_AUDIO_SAMPLES)}

\* inputs= of ct.convert in convert_moonshine.convert_decoder_to_coreml
moonshine_decoder_inputs_swapped_bounds ==
    {RangeDim("MoonshineDecoder", "decoder_input_ids", 1, MAX_OUTPUT_TOKENS, 1),
     RangeDim("MoonshineDecoder", "encoder_hidden_states",
              max_enc_seq, min_enc_seq, default_enc_seq)}
moonshine_decoder_inputs ==
    {RangeDim("MoonshineDecoder", "decoder_input_ids", 1, MAX_OUTPUT_TOKENS, 1),
     RangeDim("MoonshineDecoder", "encoder_hidden_states",
              min_enc_seq, max_enc_seq, default_enc_seq)}

\* inputs= of ct.convert in convert_moonshine.convert_combined_model
moonshine_combined_inputs ==
    {StaticDim("MoonshineTiny", "input_values", STATIC_AUDIO_SAMPLES),
     StaticDim("MoonshineTiny", "decoder_input_ids", STATIC_SEQ_LEN)}

\* compute_precision= of ct.convert in convert_encoder_to_coreml and
\* convert_decoder_to_coreml of convert_moonshine, given their quantize argument
moonshine_compute_precision(pkg, quantize) == "FLOAT16"

\* ===================================================== convert_moonshine
\* quantize / generate_combined / generate_split of main
quantize_of(f) == ~f.no_quantize
generate_combined_of(f) == ~f.split_only
generate_split_of_always(f) == TRUE
generate_split_of(f) == ~f.combined_only

\* the steps inside each function, in program order
trace_steps == <<"wrap", "trace">>
convert_save_steps_reversed == <<"save", "convert">>
convert_save_steps == <<"convert", "save">>
combined_model_steps == <<"wrap", "trace", "convert", "save">>

\* where main goes after the combined block / after the split conversions
AfterVocab(f, combined_pc, split_pc) ==
    IF generate_combined_of(f) THEN combined_pc
    ELSE IF generate_split_of(f) THEN split_pc ELSE "report"
AfterCombined(f, split_pc) == IF generate_split_of(f) THEN split_pc ELSE "report"
AfterSplit_always_validates(f) == "validate_models"
AfterSplit(f) == IF ~f.skip_validation THEN "validate_models" ELSE "report"

\* parser.parse_args() on a command line it rejects (--out missing, an
\* unknown option): argparse prints the usage and exits with status 2
parser_error == failed' = failed \cup {"usage"} /\ Exit(2)

\* an exception that main does not catch
Raise_swallowed(label) == failed' = failed \cup {label} /\ Exit(0)
Raise(label) == failed' = failed \cup {label} /\ Exit(1)

\* parser.parse_args(); out_dir.mkdir(parents=True, exist_ok=True)
moonshine_main ==
    /\ script = "convert_moonshine" /\ pc = "main"
    /\ \E r \in {"ok", "usage", "mkdir"} :
         CASE r = "ok" -> pc' = "load_moonshine_model" /\ UNCHANGED <<failed, status>>
           [] r = "usage" -> parser_error
           [] OTHER -> Raise("mkdir")
    /\ UNCHANGED <<forward_call, script, argv, flags, exists, data_files, data_entries, log,
                   saved, declared, converted, validated, calls, convert_args,
                   save_file_args, written>>

load_moonshine_model ==
    /\ script = "convert_moonshine" /\ pc = "load_moonshine_model"
    /\ \E ok \in BOOLEAN :
         IF ok
         THEN /\ log' = Append(log, [step |-> "load", pkg |-> "model", attempt |-> 1])
              /\ pc' = "save_tokenizer_vocab"
              /\ UNCHANGED <<failed, status>>
         ELSE Raise("load") /\ UNCHANGED log
    /\ UNCHANGED <<forward_call, script, argv, flags, exists, data_files, data_entries,
                   saved, declared, converted, validated, calls, convert_args,
                   save_file_args, written>>

moonshine_save_tokenizer_vocab ==
    /\ script = "convert_moonshine" /\ pc = "save_tokenizer_vocab"
    /\ \E ok \in BOOLEAN :
         IF ok
         THEN /\ log' = Append(log, [step |-> "save", pkg |-> "vocab", attempt |-> 1])
              /\ saved' = saved \cup {"vocab"}
              /\ pc' = AfterVocab(flags, "convert_combined_model", "trace_encoder")
              /\ UNCHANGED <<failed, status>>
         ELSE Raise("vocab") /\ UNCHANGED <<log, saved>>
    /\ UNCHANGED <<forward_call, script, argv, flags, exists, data_files, data_entries,
                   declared, converted, validated, calls, convert_args,
                   save_file_args, written>>

convert_combined_model ==
    /\ script = "convert_moonshine" /\ pc = "convert_combined_model"
    /\ \E n \in 0..4 :
         /\ log' = log \o Events(combined_model_steps, "MoonshineTiny", 1, n)
         /\ IF n >= 3
            THEN /\ declared' = declared \cup moonshine_combined_inputs
                 /\ converted' = converted \cup
                       {[pkg |-> "MoonshineTiny", precision |-> "FLOAT16"]}
            ELSE UNCHANGED <<declared, converted>>
         /\ IF n = 4
            THEN /\ saved' = saved \cup {"MoonshineTiny"}
                 /\ pc' = AfterCombined(flags, "trace_encoder")
                 /\ UNCHANGED <<failed, status>>
            ELSE Raise("combined") /\ UNCHANGED saved
    /\ UNCHANGED <<forward_call, script, argv, flags, exists, data_files, data_entries,
                   validated, calls, convert_args, save_file_args, written>>

moonshine_trace_encoder ==
    /\ script = "convert_moonshine" /\ pc = "trace_encoder"
    /\ \E n \in 0..2 :
         /\ log' = log \o Events(trace_steps, "MoonshineEncoder", 1, n)
         /\ IF n = 2 THEN pc' = "trace_decoder" /\ UNCHANGED <<failed, status>>
            ELSE Raise("trace_encoder")
    /\ UNCHANGED <<forward_call, script, argv, flags, exists, data_files, data_entries,
                   saved, declared, converted, validated, calls, convert_args,
                   save_file_args, written>>

moonshine_trace_decoder ==
    /\ script = "convert_moonshine" /\ pc = "trace_decoder"
    /\ \E n \in 0..2 :
         /\ log' = log \o Events(trace_steps, "MoonshineDecoder", 1, n)
         /\ IF n = 2 THEN pc' = "convert_encoder_to_coreml" /\ UNCHANGED <<failed, status>>
            ELSE Raise("trace_decoder")
    /\ UNCHANGED <<forward_call, script, argv, flags, exists, data_files, data_entries,
                   saved, declared, converted, validated, calls, convert_args,
                   save_file_args, written>>

\* convert_encoder_to_coreml(traced_encoder, model, out_dir, quantize=quantize)
moonshine_convert_encoder_to_coreml ==
    /\ script = "convert_moonshine" /\ pc = "convert_encoder_to_coreml"
    /\ \E n \in 0..2 :
         /\ log' = log \o Events(convert_save_steps, "MoonshineEncoder", 1, n)
         /\ IF n >= 1
            THEN /\ declared' = declared \cup moonshine_encoder_inputs
                 /\ converted' = converted \cup
                       {[pkg |-> "MoonshineEncoder",
                         precision |-> moonshine_compute_precision(
                                           "MoonshineEncoder", quantize_of(flags))]}
            ELSE UNCHANGED <<declared, converted>>
         /\ IF n = 2
            THEN /\ saved' = saved \cup {"MoonshineEncoder"}
                 /\ pc' = "convert_decoder_to_coreml"
                 /\ UNCHANGED <<failed, status>>
            ELSE Raise("convert_encoder") /\ UNCHANGED saved
    /\ UNCHANGED <<forward_call, script, argv, flags, exists, data_files, data_entries,
                   validated, calls, convert_args, save_file_args, written>>

\* convert_decoder_to_coreml(traced_decoder, model, out_dir, quantize=quantize)
moonshine_convert_decoder_to_coreml ==
    /\ script = "convert_moonshine" /\ pc = "convert_decoder_to_coreml"
    /\ \E n \in 0..2 :
         /\ log' = log \o Events(convert_save_steps, "MoonshineDecoder", 1, n)
         /\ IF n >= 1
            THEN /\ declared' = declared \cup moonshine_decoder_inputs
                 /\ converted' = converted \cup
                       {[pkg |-> "MoonshineDecoder",
                         precision |-> moonshine_compute_precision(
                                           "MoonshineDecoder", quantize_of(flags))]}
            ELSE UNCHANGED <<declared, converted>>
         /\ IF n = 2
            THEN /\ saved' = saved \cup {"MoonshineDecoder"}
                 /\ pc' = AfterSplit(flags)
                 /\ UNCHANGED <<failed, status>>
            ELSE Raise("convert_decoder") /\ UNCHANGED saved
    /\ UNCHANGED <<forward_call, script, argv, flags, exists, data_files, data_entries,
                   validated, calls, convert_args, save_file_args, written>>

\* validate_models(encoder_path, decoder_path, processor, model): its own
\* try/except logs a failure and returns False, which main ignores
moonshine_validate_models ==
    /\ script = "convert_moonshine" /\ pc = "validate_models"
    /\ calls' = Called("validate_models")
    /\ validated' = validated \cup {"MoonshineEncoder", "MoonshineDecoder"}
    /\ \E ok \in BOOLEAN :
         failed' = IF ok THEN failed ELSE failed \cup {"validate"}
    /\ pc' = "report"
    /\ UNCHANGED <<forward_call, script, argv, flags, exists, data_files, data_entries,
                   status, log, saved, declared, converted, convert_args,
                   save_file_args, written>>

\* the closing logger.info lines; main returns and the process exits 0
moonshine_report ==
    /\ script = "convert_moonshine" /\ pc = "report"
    /\ Exit(0)
    /\ UNCHANGED <<forward_call, script, argv, flags, exists, data_files, data_entries,
                   log, failed, saved, declared, converted, validated, calls,
                   convert_args, save_file_args, written>>

\* ============================================================ convert_t5
\* inputs= of ct.convert in convert_t5.convert_encoder_to_coreml
t5_encoder_inputs ==
    {RangeDim("T5Encoder", "input_ids",
              MIN_INPUT_LENGTH, MAX_INPUT_LENGTH, DEFAULT_INPUT_LENGTH)}

\* inputs= of ct.convert in convert_t5.convert_decoder_to_coreml
t5_decoder_inputs ==
    {RangeDim("T5Decoder", "decoder_input_ids",
              MIN_OUTPUT_LENGTH, MAX_OUTPUT_LENGTH, 1),
     RangeDim("T5Decoder", "encoder_hidden_states",
              MIN_INPUT_LENGTH, MAX_INPUT_LENGTH, DEFAULT_INPUT_LENGTH)}

\* inputs= of ct.convert in convert_t5.convert_combined_to_coreml
t5_combined_inputs ==
    {RangeDim("T5Small", "input_ids",
              MIN_INPUT_LENGTH, MAX_INPUT_LENGTH, DEFAULT_INPUT_LENGTH),
     RangeDim("T5Small", "decoder_input_ids",
              MIN_OUTPUT_LENGTH, MAX_OUTPUT_LENGTH, 1)}

\* one conversion function of convert_t5: ct.convert with the given inputs,
\* then mlmodel.save; an exception propagates out of main
t5_convert(pkg, inputs, label, next_pc) ==
    /\ \E n \in 0..2 :
         /\ log' = log \o Events(convert_save_steps, pkg, 1, n)
         /\ IF n >= 1
            THEN /\ declared' = declared \cup inputs
                 /\ converted' = converted \cup
                       {[pkg |-> pkg, precision |-> "FLOAT16"]}
            ELSE UNCHANGED <<declared, converted>>
         /\ IF n = 2
            THEN /\ saved' = saved \cup {pkg}
                 /\ pc' = next_pc
                 /\ UNCHANGED <<failed, status>>
            ELSE Raise(label) /\ UNCHANGED saved
    /\ UNCHANGED <<forward_call, script, argv, flags, exists, data_files, data_entries,
                   validated, calls, convert_args, save_file_args, written>>

\* one tracing function of convert_t5: build the wrapper, torch.jit.trace
t5_trace(pkg, label, next_pc) ==
    /\ \E n \in 0..2 :
         /\ log' = log \o Events(trace_steps, pkg, 1, n)
         /\ IF n = 2 THEN pc' = next_pc /\ UNCHANGED <<failed, status>>
            ELSE Raise(label)
    /\ UNCHANGED <<forward_call, script, argv, flags, exists, data_files, data_entries,
                   saved, declared, converted, validated, calls, convert_args,
                   save_file_args, written>>

\* parser.parse_args(); out_dir.mkdir(parents=True, exist_ok=True)
t5_main ==
    /\ script = "convert_t5" /\ pc = "main"
    /\ \E r \in {"ok", "usage", "mkdir"} :
         CASE r = "ok" -> pc' = "load_t5_model" /\ UNCHANGED <<failed, status>>
           [] r = "usage" -> parser_error
           [] OTHER -> Raise("mkdir")
    /\ UNCHANGED <<forward_call, script, argv, flags, exists, data_files, data_entries, log,
                   saved, declared, converted, validated, calls, convert_args,
                   save_file_args, written>>

load_t5_model ==
    /\ script = "convert_t5" /\ pc = "load_t5_model"
    /\ \E ok \in BOOLEAN :
         IF ok
         THEN /\ log' = Append(log, [step |-> "load", pkg |-> "model", attempt |-> 1])
              /\ pc' = "save_tokenizer_vocab"
              /\ UNCHANGED <<failed, status>>
         ELSE Raise("load") /\ UNCHANGED log
    /\ UNCHANGED <<forward_call, script, argv, flags, exists, data_files, data_entries,
                   saved, declared, converted, validated, calls, convert_args,
                   save_file_args, written>>

t5_save_tokenizer_vocab ==
    /\ script = "convert_t5" /\ pc = "save_tokenizer_vocab"
    /\ \E ok \in BOOLEAN :
         IF ok
         THEN /\ log' = Append(log, [step |-> "save", pkg |-> "vocab", attempt |-> 1])
              /\ saved' = saved \cup {"vocab"}
              /\ pc' = AfterVocab(flags, "trace_combined", "trace_encoder")
              /\ UNCHANGED <<failed, status>>
         ELSE Raise("vocab") /\ UNCHANGED <<log, saved>>
    /\ UNCHANGED <<forward_call, script, argv, flags, exists, data_files, data_entries,
                   declared, converted, validated, calls, convert_args,
                   save_file_args, written>>

trace_combined ==
    /\ script = "convert_t5" /\ pc = "trace_combined"
    /\ t5_trace("T5Small", "trace_combined", "convert_combined_to_coreml")

convert_combined_to_coreml ==
    /\ script = "convert_t5" /\ pc = "convert_combined_to_coreml"
    /\ t5_convert("T5Small", t5_combined_inputs, "combined",
                  AfterCombined(flags, "trace_encoder"))

t5_trace_encoder ==
    /\ script = "convert_t5" /\ pc = "trace_encoder"
    /\ t5_trace("T5Encoder", "trace_encoder", "trace_decoder")

t5_trace_decoder ==
    /\ script = "convert_t5" /\ pc = "trace_decoder"
    /\ t5_trace("T5Decoder", "trace_decoder", "convert_encoder_to_coreml")

t5_convert_encoder_to_coreml ==
    /\ script = "convert_t5" /\ pc = "convert_encoder_to_coreml"
    /\ t5_convert("T5Encoder", t5_encoder_inputs, "convert_encoder",
                  "convert_decoder_to_coreml")

t5_convert_decoder_to_coreml ==
    /\ script = "convert_t5" /\ pc = "convert_decoder_to_coreml"
    /\ t5_convert("T5Decoder", t5_decoder_inputs, "convert_decoder",
                  AfterSplit(flags))

\* validate_models(encoder_path, decoder_path, tokenizer, model): its own
\* try/except logs a failure and returns False, which main ignores
t5_validate_models ==
    /\ script = "convert_t5" /\ pc = "validate_models"
    /\ calls' = Called("validate_models")
    /\ validated' = validated \cup {"T5Encoder", "T5Decoder"}
    /\ \E ok \in BOOLEAN :
         failed' = IF ok THEN failed ELSE failed \cup {"validate"}
    /\ pc' = "report"
    /\ UNCHANGED <<forward_call, script, argv, flags, exists, data_files, data_entries,
                   status, log, saved, declared, converted, convert_args,
                   save_file_args, written>>

\* the closing logger.info lines; main returns and the process exits 0
t5_report ==
    /\ script = "convert_t5" /\ pc = "report"
    /\ Exit(0)
    /\ UNCHANGED <<forward_call, script, argv, flags, exists, data_files, data_entries,
                   log, failed, saved, declared, converted, validated, calls,
                   convert_args, save_file_args, written>>

\* ==================================================== convert_silero_vad
\* convert_to_coreml: SileroVADWrapper, torch.jit.trace, ct.convert (and the
\* metadata assignments), mlmodel.save; then quantize_weights and its save
silero_steps == <<"wrap", "trace", "convert", "save">>
quantized_steps == <<"convert", "save">>

\* create_energy_vad_coreml: EnergyVAD(), torch.jit.trace, ct.convert, save
energy_steps == <<"wrap", "trace", "convert", "save">>

\* the except clause of main: print the error, create the fallback
main_except_handler_no_fallback == "done"
main_except_handler == "create_energy_vad_coreml_except"

\* if args.energy_only: ... else: try: download_silero_vad() ...
silero_branch_ignores_flag(f) == "download_silero_vad"
silero_branch(f) == IF f.energy_only THEN "create_energy_vad_coreml"
                    ELSE "download_silero_vad"

\* parser.parse_args(); args.output_dir.mkdir(parents=True, exist_ok=True)
silero_main ==
    /\ script = "convert_silero_vad" /\ pc = "main"
    /\ \E r \in {"ok", "usage", "mkdir"} :
         CASE r = "ok" ->
                /\ pc' = silero_branch(flags)
                /\ UNCHANGED <<failed, status>>
           [] r = "usage" -> parser_error
           [] OTHER -> Raise("mkdir")
    /\ UNCHANGED <<forward_call, script, argv, flags, exists, data_files, data_entries, log,
                   saved, declared, converted, validated, calls, convert_args,
                   save_file_args, written>>

\* model = download_silero_vad(), inside main's try
download_silero_vad ==
    /\ script = "convert_silero_vad" /\ pc = "download_silero_vad"
    /\ calls' = Called("download_silero_vad")
    /\ \E ok \in BOOLEAN :
         IF ok
         THEN /\ log' = Append(log, [step |-> "load", pkg |-> "model", attempt |-> 1])
              /\ pc' = "convert_to_coreml"
              /\ UNCHANGED failed
         ELSE /\ failed' = failed \cup {"download"}
              /\ pc' = main_except_handler
              /\ UNCHANGED log
    /\ UNCHANGED <<forward_call, script, argv, flags, exists, data_files, data_entries,
                   status, saved, declared, converted, validated, convert_args,
                   save_file_args, written>>

\* example_audio = torch.randn(1, chunk_size): some audio chunk
AudioChunks == 0..MaxChunk

\* values of an LSTM state tensor; h = c = torch.zeros(2, 1, 64) is 0
LstmStates == 0..MaxState
zeros == 0

\* what the wrapped Silero model computes for a chunk: the probability and
\* the LSTM state it holds after the chunk (any value: library code)
ModelOuts == [prob : {0, 1}, h : LstmStates, c : LstmStates]

\* SileroVADWrapper.forward(audio, h, c):
\*     prob = self.model(audio, 16000)
\*     return prob, h, c
SileroVADWrapper_forward(model_out, audio, h, c) ==
    [prob |-> model_out.prob, h_out |-> h, c_out |-> c]

\* result = convert_to_coreml(model, args.output_dir), inside main's try.
\* torch.jit.trace runs wrapper.forward once on (example_audio, h, c).
\*   n = -1 : model.eval() or torch.randn raises before the function's try
\*   n < 4  : a step inside the try raises; the function returns None
\*   n = 4  : SileroVAD saved, quantization raised and was skipped
\*   n = 5  : quantized, but saving the quantized copy raised
\*   n = 6  : both packages saved
convert_to_coreml ==
    /\ script = "convert_silero_vad" /\ pc = "convert_to_coreml"
    /\ calls' = Called("convert_to_coreml")
    /\ \E n \in -1..6 :
         LET m == IF n < 0 THEN 0 ELSE IF n > 4 THEN 4 ELSE n
             q == IF n > 4 THEN n - 4 ELSE 0
         IN
         /\ log' = log \o Events(silero_steps, "SileroVAD", 1, m)
                       \o Events(quantized_steps, "SileroVAD_fp16", 1, q)
         /\ converted' = converted
                \cup (IF m >= 3 THEN {[pkg |-> "SileroVAD", precision |-> "FLOAT16"]}
                      ELSE {})
                \cup (IF q >= 1 THEN {[pkg |-> "SileroVAD_fp16", precision |-> "FLOAT16"]}
                      ELSE {})
         /\ declared' = declared
                \cup (IF m >= 3 THEN {StaticDim("SileroVAD", "audio", 512)} ELSE {})
         /\ saved' = saved
                \cup (IF m = 4 THEN {"SileroVAD"} ELSE {})
                \cup (IF q = 2 THEN {"SileroVAD_fp16"} ELSE {})
         /\ failed' = failed \cup
                (CASE n = -1 -> {"silero_prepare"}
                   [] n \in 0..3 -> {"silero_convert"}
                   [] n \in 4..5 -> {"quantize"}
                   [] OTHER -> {})
         /\ pc' = CASE n = -1 -> main_except_handler
                    [] n \in 0..3 -> "create_energy_vad_coreml_none"
                    [] OTHER -> "done"
         /\ IF m >= 2
            THEN \E example_audio \in AudioChunks, model_out \in ModelOuts :
                   forward_call' =
                     [called |-> TRUE, audio |-> example_audio,
                      h |-> zeros, c |-> zeros, model_out |-> model_out,
                      out |-> SileroVADWrapper_forward(model_out, example_audio,
                                                       zeros, zeros)]
            ELSE UNCHANGED forward_call
    /\ UNCHANGED <<script, argv, flags, exists, data_files, data_entries,
                   status, validated, convert_args, save_file_args, written>>

\* create_energy_vad_coreml(args.output_dir), called from
\*   site "create_energy_vad_coreml"        : the energy_only branch
\*   site "create_energy_vad_coreml_none"   : result is None, inside the try
\*   site "create_energy_vad_coreml_except" : the except clause
\* An exception at the second site is caught by main's except clause, which
\* calls the function again; at the other two sites nothing catches it.
create_energy_vad_coreml ==
    /\ script = "convert_silero_vad"
    /\ pc \in {"create_energy_vad_coreml", "create_energy_vad_coreml_none",
               "create_energy_vad_coreml_except"}
    /\ calls' = Called("create_energy_vad_coreml")
    /\ \E n \in 0..4 :
         /\ log' = log \o Events(energy_steps, "EnergyVAD",
                                 calls["create_energy_vad_coreml"] + 1, n)
         /\ IF n >= 3
            THEN /\ declared' = declared \cup {StaticDim("EnergyVAD", "audio", 512)}
                 /\ converted' = converted \cup
                       {[pkg |-> "EnergyVAD", precision |-> "FLOAT16"]}
            ELSE UNCHANGED <<declared, converted>>
         /\ IF n = 4
            THEN /\ saved' = saved \cup {"EnergyVAD"}
                 /\ pc' = "done"
                 /\ UNCHANGED <<failed, status>>
            ELSE IF pc = "create_energy_vad_coreml_none"
                 THEN /\ failed' = failed \cup {"energy_in_try"}
                      /\ pc' = main_except_handler
                      /\ UNCHANGED <<saved, status>>
                 ELSE Raise("energy") /\ UNCHANGED saved
    /\ UNCHANGED <<forward_call, script, argv, flags, exists, data_files, data_entries,
                   validated, convert_args, save_file_args, written>>

\* print("Done!"); main returns and the process exits 0
silero_done ==
    /\ script = "convert_silero_vad" /\ pc = "done"
    /\ Exit(0)
    /\ UNCHANGED <<forward_call, script, argv, flags, exists, data_files, data_entries,
                   log, failed, saved, declared, converted, validated, calls,
                   convert_args, save_file_args, written>>

Next ==
    \/ weights_main
    \/ convert
    \/ moonshine_main
    \/ load_moonshine_model
    \/ moonshine_save_tokenizer_vocab
    \/ convert_combined_model
    \/ moonshine_trace_encoder
    \/ moonshine_trace_decoder
    \/ moonshine_convert_encoder_to_coreml
    \/ moonshine_convert_decoder_to_coreml
    \/ moonshine_validate_models
    \/ moonshine_report
    \/ t5_main
    \/ load_t5_model
    \/ t5_save_tokenizer_vocab
    \/ trace_combined
    \/ convert_combined_to_coreml
    \/ t5_trace_encoder
    \/ t5_trace_decoder
    \/ t5_convert_encoder_to_coreml
    \/ t5_convert_decoder_to_coreml
    \/ t5_validate_models
    \/ t5_report
    \/ silero_main
    \/ download_silero_vad
    \/ convert_to_coreml
    \/ create_energy_vad_coreml
    \/ silero_done

Spec == Init /\ [][Next]_vars

\* ================================================================ claims
Exited == pc = "exit"

\* ---- C1 as stated: no run in which a step failed ends with exit status 0
C1_AnyFailureExitsNonZero == (Exited /\ failed # {}) => status # 0

\* failures that the scripts catch and carry on from: the Silero path of
\* convert_silero_vad (download, conversion, quantization, a fallback raised
\* inside main's try) and validate_models of convert_moonshine / convert_t5
Tolerated == {"download", "silero_prepare", "silero_convert", "quantize",
              "energy_in_try", "validate"}

\* C1 (amended): a run exits with status 0 exactly when every step that
\* failed is one the script catches and continues from (Silero path with
\* fallback, validation); every other failure -- any failure of
\* convert_weights, a load / vocabulary / trace / convert / save failure of
\* convert_moonshine and convert_t5, mkdir, a fallback that fails outside
\* main's try -- ends the run with a non-zero status (1; 2 for a command
\* line that argparse rejects).
C1_FatalFailureExitsNonZero ==
    Exited => /\ status \in {0, 1, 2}
              /\ (status = 0) <=> (failed \subseteq Tolerated)
              /\ script = "convert_weights" /\ failed # {} => status = 1

C1_Witness ==
    /\ Exited /\ status = 1
    /\ script = "convert_moonshine" /\ "convert_encoder" \in failed

\* ---- C2: convert with a missing input_path exits 1 and calls neither
\* np.load nor save_file, so no file is created or modified
C2_MissingInputExitsUntouched ==
    (/\ script = "convert_weights"
     /\ Len(convert_args) > 0
     /\ convert_args[1][1] \notin exists)
    => /\ Exited /\ status = 1
       /\ calls["np_load"] = 0 /\ calls["save_file"] = 0
       /\ save_file_args = <<>>
       /\ written = {} /\ saved = {}

C2_Witness ==
    /\ script = "convert_weights" /\ Exited
    /\ Len(convert_args) = 1 /\ convert_args[1][1] \notin exists
    /\ convert_args[1][2] \in exists

\* ---- C3: with len(sys.argv) < 3 the script prints usage and exits 1
\* without calling convert; otherwise convert is called exactly once, with
\* sys.argv[1] and sys.argv[2]
C3_UsageOrOneConvert ==
    (script = "convert_weights" /\ pc # "main") =>
        IF Len(argv) < 3
        THEN /\ Exited /\ status = 1
             /\ convert_args = <<>> /\ calls["convert"] = 0
             /\ "usage" \in failed
        ELSE /\ Len(convert_args) <= 1
             /\ Len(convert_args) = calls["convert"]
             /\ Exited => convert_args = << <<argv[2], argv[3]>> >>

C3_Witness ==
    /\ script = "convert_weights" /\ Exited
    /\ Len(argv) = 4 /\ argv[2] # argv[3]
    /\ convert_args = << <<argv[2], argv[3]>> >>

\* ---- C4: the dictionary handed to save_file has exactly the archive's
\* names as keys and the archive's entry as the value of every key
C4_TensorsEqualArchive ==
    \A i \in 1..Len(save_file_args) :
        LET tensors == save_file_args[i][1] IN
        /\ \A j \in 1..Len(data_files) : data_files[j] \in DOMAIN tensors
        /\ \A k \in DOMAIN tensors :
              /\ \E j \in 1..Len(data_files) : data_files[j] = k
              /\ tensors[k] = data_entries[k]
        /\ Cardinality(DOMAIN tensors) = Len(data_files)

C4_Witness ==
    /\ Len(save_file_args) = 1 /\ "safetensors" \in saved
    /\ Len(data_files) >= 2
    /\ \E j, k \in 1..Len(data_files) :
          data_entries[data_files[j]] # data_entries[data_files[k]]

\* ---- vocabulary for the CoreML scripts
Rank(step) ==
    CASE step = "load" -> 1
      [] step = "wrap" -> 2
      [] step = "trace" -> 3
      [] step = "convert" -> 4
      [] step = "save" -> 5

TwoStage == {"convert_moonshine", "convert_t5"}
CombinedPkg == IF script = "convert_moonshine" THEN "MoonshineTiny" ELSE "T5Small"
SplitPkgs == IF script = "convert_moonshine"
             THEN {"MoonshineEncoder", "MoonshineDecoder"}
             ELSE {"T5Encoder", "T5Decoder"}
Completed == Exited /\ status = 0

\* an earlier event of the same build of the same package with the given step
Earlier(j, step) ==
    \E i \in 1..(j - 1) :
        /\ log[i].pkg = log[j].pkg /\ log[i].attempt = log[j].attempt
        /\ log[i].step = step

\* ---- C5 as stated: the model steps of a run are one load, wrap, trace,
\* convert, save sequence: ranks strictly increase, so nothing is repeated
\* and nothing follows a save (the vocabulary file is left out)
C5_OneLinearSequence ==
    \A i, j \in 1..Len(log) :
        (i < j /\ log[i].pkg # "vocab" /\ log[j].pkg # "vocab")
            => Rank(log[i].step) < Rank(log[j].step)

\* C5 (amended): a run loads at most once, before every other step; within
\* each build of a package the steps wrap, trace, convert, save happen at
\* most once each, in this order, each after its predecessor completed.
\* The sequence is repeated for every further package of the run (combined,
\* then encoder and decoder; SileroVAD, its quantized copy, the EnergyVAD
\* fallback, which may be built a second time), so wrap, trace, convert and
\* save do recur after an earlier package was saved.
C5_LinearPerPackage ==
    /\ \A i \in 1..Len(log) : log[i].step = "load" => i = 1
    /\ \A i, j \in 1..Len(log) :
          (i < j /\ log[i].pkg = log[j].pkg /\ log[i].attempt = log[j].attempt)
              => Rank(log[i].step) < Rank(log[j].step)
    /\ \A j \in 1..Len(log) :
          /\ (log[j].step = "save" /\ log[j].pkg # "vocab") => Earlier(j, "convert")
          /\ (log[j].step = "convert" /\ log[j].pkg = "safetensors") => Earlier(j, "load")
          /\ (log[j].step = "convert" /\ log[j].pkg = "SileroVAD_fp16")
                => \E i \in 1..(j - 1) : log[i] = [step |-> "save", pkg |-> "SileroVAD",
                                                  attempt |-> 1]
          /\ (log[j].step = "convert"
                /\ log[j].pkg \notin {"safetensors", "SileroVAD_fp16"})
                => Earlier(j, "trace")
          /\ log[j].step = "trace" => Earlier(j, "wrap")
          /\ (log[j].step = "wrap" /\ log[j].pkg # "EnergyVAD")
                => log[1].step = "load"

C5_Witness ==
    /\ script = "convert_moonshine" /\ Completed
    /\ {"MoonshineTiny", "MoonshineEncoder", "MoonshineDecoder"} \subseteq saved

C7_EveryPackageValidated ==
    script \in TwoStage =>
        /\ flags.skip_validation => calls["validate_models"] = 0
        /\ (~flags.skip_validation /\ Completed)
              => (saved \cap ({CombinedPkg} \cup SplitPkgs)) \subseteq validated

\* C7 (amended): with --skip-validation validate_models is never called;
\* without it, a run that generates the encoder and decoder calls
\* validate_models once, on those two packages, after both were saved.
\* The combined package is never validated.
C7_SplitPackagesValidated ==
    script \in TwoStage =>
        /\ flags.skip_validation => (calls["validate_models"] = 0 /\ validated = {})
        /\ (~flags.skip_validation /\ Completed)
              => (saved \cap SplitPkgs) \subseteq validated
        /\ validated # {} => (validated = SplitPkgs /\ SplitPkgs \subseteq saved)
        /\ CombinedPkg \notin validated
        /\ calls["validate_models"] <= 1

C7_Witness ==
    /\ script = "convert_moonshine" /\ Completed /\ ~flags.skip_validation
    /\ "MoonshineTiny" \in saved /\ validated = SplitPkgs

\* ---- C8: with --no-quantize the encoder and decoder of convert_moonshine
\* are converted with a compute precision other than the one used without
\* the flag
C8_NoQuantizeChangesPrecision ==
    \A c \in converted :
        (/\ script = "convert_moonshine" /\ flags.no_quantize
         /\ c.pkg \in {"MoonshineEncoder", "MoonshineDecoder"})
        => c.precision # moonshine_compute_precision(c.pkg, TRUE)

\* ---- C9 as stated: every saved Moonshine package with an input_values
\* input declares it as a range accepting 16000 .. 480000 samples
AudioLengths == {16000, 16001, 48000, 80000, 160000, 479999, 480000}

SileroPathFailed == failed \cap {"download", "silero_prepare", "silero_convert"} # {}

C10_FallbackSavesAPackage ==
    (script = "convert_silero_vad" /\ ~flags.energy_only) =>
        /\ (SileroPathFailed
              /\ pc \notin {"create_energy_vad_coreml_none",
                            "create_energy_vad_coreml_except"})
              => calls["create_energy_vad_coreml"] >= 1
        /\ (pc = "done" \/ Completed)
              => saved \cap {"SileroVAD", "EnergyVAD"} # {}
        /\ (SileroPathFailed /\ (pc = "done" \/ Completed)) => "EnergyVAD" \in saved

C10_Witness ==
    /\ script = "convert_silero_vad" /\ ~flags.energy_only /\ Completed
    /\ "download" \in failed /\ "EnergyVAD" \in saved /\ "SileroVAD" \notin saved

\* ---- C11: with --energy-only main calls create_energy_vad_coreml exactly
\* once (when it gets past the command line and mkdir) and never calls
\* download_silero_vad or convert_to_coreml; only EnergyVAD.mlpackage is
\* written
C11_EnergyOnlyOneCall ==
    (script = "convert_silero_vad" /\ flags.energy_only) =>
        /\ calls["download_silero_vad"] = 0
        /\ calls["convert_to_coreml"] = 0
        /\ calls["create_energy_vad_coreml"] <= 1
        /\ (pc \in {"done", "exit"} /\ failed \cap {"usage", "mkdir"} = {})
              => calls["create_energy_vad_coreml"] = 1
        /\ saved \subseteq {"EnergyVAD"}
        /\ \A i \in 1..Len(log) : log[i].pkg = "EnergyVAD"
        /\ Completed => saved = {"EnergyVAD"}

\* ---- C12: SileroVADWrapper.forward returns, besides the probability, the
\* LSTM hidden and cell state produced by processing the chunk
C12_ForwardReturnsUpdatedState ==
    forward_call.called =>
        /\ forward_call.out.prob = forward_call.model_out.prob
        /\ forward_call.out.h_out = forward_call.model_out.h
        /\ forward_call.out.c_out = forward_call.model_out.c

\* ---- C13: every ct.RangeDim of convert_moonshine and convert_t5 is well
\* formed, 1 <= lower_bound <= default <= upper_bound, with the bounds
\*   audio 16000 / 80000 / 480000, Moonshine decoder tokens 1 / 1 / 448,
\*   Moonshine encoder sequence 83 / 416 / 2501,
\*   T5 input 1 / 64 / 512, T5 decoder tokens 1 / 1 / 512
Bounds(d) == <<d.lower, d.default, d.upper>>

C13_RangeDimsWellFormed ==
    \A d \in declared :
        (script \in TwoStage /\ d.dynamic) =>
            /\ d.lower >= 1
            /\ d.lower <= d.default /\ d.default <= d.upper
            /\ Bounds(d) =
                 CASE d.name = "input_values" -> <<16000, 80000, 480000>>
                   [] d.name = "input_ids" -> <<1, 64, 512>>
                   [] d.name = "decoder_input_ids" ->
                        IF script = "convert_moonshine" THEN <<1, 1, 448>>
                        ELSE <<1, 1, 512>>
                   [] d.name = "encoder_hidden_states" ->
                        IF script = "convert_moonshine" THEN <<83, 416, 2501>>
                        ELSE <<1, 64, 512>>

C13_Witness ==
    /\ script = "convert_moonshine"
    /\ Cardinality({d \in declared : d.dynamic}) = 3
    /\ \E d \in declared :
          d.pkg = "MoonshineDecoder" /\ d.name = "encoder_hidden_states"

C11_Witness ==
    /\ script = "convert_silero_vad" /\ flags.energy_only /\ Completed
    /\ calls["create_energy_vad_coreml"] = 1 /\ saved = {"EnergyVAD"}
====
